---- MODULE Spec2Model ----
(***************************************************************************)
(* Model of cio/src/auth_logins.rs: the Auth0 -> database synchronisation. *)
(* refresh_db_auth calls get_auth_users, which fetches a token, pages      *)
(* through the remote user list, fetches each user's login log, upserts    *)
(* the login events, and returns the normalized users, which               *)
(* refresh_db_auth then upserts.  Strings are TLC strings, handled         *)
(* character by character (Len, Head, Tail, SubSeq, \o).                   *)
(***************************************************************************)
EXTENDS Integers, Sequences, FiniteSets, TLC

VARIABLES
    remote,            \* the remote dataset and its injected fault (environment, fixed)
    run,               \* ordinal of the current invocation of refresh_db_auth
    pc,                \* position of the run in the code
    panic,             \* "" or the unwrap / index that ended the run
    access_token,      \* token.access_token
    i,                 \* page counter of get_auth_users
    has_records,       \* loop flag of get_auth_users
    u,                 \* the page just fetched, before it is appended
    users,             \* Vec<User> collected by the pagination loop
    cur,               \* position of the per-user loop in users (1-based)
    auth_user,         \* the NewAuthUser being built for users[cur]
    auth_user_logins,  \* the log list fetched for users[cur]
    auth_users,        \* Vec<NewAuthUser> returned by get_auth_users
    k,                 \* position of refresh_db_auth's loop in auth_users
    sinkUsers,         \* database table of auth users, keyed by user_id
    sinkLogins,        \* database table of auth user logins, keyed by (user_id, id)
    calls,             \* the external calls this run has issued, in order
    prevCalls,         \* the external calls the previous run issued
    prevSink           \* the two database tables as the previous run left them

vars == <<remote, run, pc, panic, access_token, i, has_records, u, users, cur,
          auth_user, auth_user_logins, auth_users, k, sinkUsers, sinkLogins,
          calls, prevCalls, prevSink>>

-----------------------------------------------------------------------------
(* Bounds of the model. *)

\* Users in the remote dataset.
MaxUsers == 3
\* Users per page served by the remote (the code asks for per_page=20).
PageSize == 2
\* Invocations of refresh_db_auth in one behaviour.
MaxRuns == 2

(* Program constants. *)

\* time::Duration::from_millis(2000)
RateLimitSleepMs == 2000
\* StatusCode::OK
StatusOK == 200
\* StatusCode::TOO_MANY_REQUESTS
StatusTooManyRequests == 429

\* crate::utils::{DOMAIN, GSUITE_DOMAIN}
\* DOMAIN is a TLA+ keyword, hence the longer name.
DOMAIN_NAME == "oxide.computer"
GSUITE_DOMAIN == "oxidecomputer.com"

-----------------------------------------------------------------------------
(* Strings. *)

\* char::is_whitespace, for the characters the model uses.
IsWhitespace(c) == c \in {" ", "\t", "\n"}

\* str::ends_with
EndsWith(s, suffix) ==
    /\ Len(suffix) <= Len(s)
    /\ SubSeq(s, Len(s) - Len(suffix) + 1, Len(s)) = suffix

RECURSIVE TrimStart(_)
TrimStart(s) ==
    IF Len(s) = 0 THEN s
    ELSE IF IsWhitespace(Head(s)) THEN TrimStart(Tail(s))
    ELSE s

RECURSIVE TrimEnd(_)
TrimEnd(s) ==
    IF Len(s) = 0 THEN s
    ELSE IF IsWhitespace(SubSeq(s, Len(s), Len(s))) THEN TrimEnd(SubSeq(s, 1, Len(s) - 1))
    ELSE s

\* str::trim
Trim(s) == TrimEnd(TrimStart(s))

DecimalDigits == <<"0", "1", "2", "3", "4", "5", "6", "7", "8", "9">>

\* i32::to_string, for the non-negative values the page counter takes.
RECURSIVE ToDecimal(_)
ToDecimal(n) ==
    IF n < 10 THEN DecimalDigits[n + 1]
    ELSE ToDecimal(n \div 10) \o DecimalDigits[(n % 10) + 1]

\* The remote's reading of the page query parameter.
RECURSIVE ParseDecimal(_)
ParseDecimal(s) ==
    IF Len(s) = 0 THEN 0
    ELSE LET last == SubSeq(s, Len(s), Len(s))
             d == CHOOSE x \in 0..9 : DecimalDigits[x + 1] = last
         IN  10 * ParseDecimal(SubSeq(s, 1, Len(s) - 1)) + d

-----------------------------------------------------------------------------
(* The remote identity API: a user dataset served in pages, a login log   *)
(* per user, and at most one injected fault.                               *)

\* Users of the dataset (struct User, the fields the code reads).
Alice == [user_id |-> "auth0|alice", email |-> "alice@oxidecomputer.com",
          company |-> "whatever", identities |-> <<"google-oauth2">>]
Bob   == [user_id |-> "github|bob", email |-> "bob@bench.com",
          company |-> " Algolia ", identities |-> <<"github", "auth0">>]
Carol == [user_id |-> "auth0|carol", email |-> "carol@example.com",
          company |-> "TBD", identities |-> <<"auth0">>]
Dave  == [user_id |-> "auth0|dave", email |-> "dave@example.com",
          company |-> "Dave and Sons", identities |-> <<>>]
Erin  == [user_id |-> "google-oauth2|erin", email |-> "erin@oxide.computer",
          company |-> "Oxide Computer Company ", identities |-> <<"google-oauth2">>]

UserPool == {Alice, Bob, Carol, Dave, Erin}

\* Email and company values for the company rewrite of User::to_auth_user.
GridEmails ==
    {"a@oxidecomputer.com", "a@oxide.computer", "@oxide.computer",
     "a@oxidecomputer.com ", "a@OXIDECOMPUTER.COM", "oxide.computer",
     "b@bench.com", "b@bench.com.au", "bench.com", "c@example.com", ""}
GridCompanies ==
    {"", " ", "\t\n", "TBD", " TBD ", "tbd", "Algolia", "\tAlgolia ", "Algolia Inc",
     "Oxide Computer Company", " Oxide Computer Company\n", "0xF9BA143B95FF6D82",
     "0xF9BA143B95FF6D82 ", "whatever", "  Acme  Inc  ", "@oxidecomputer"}

GridUser(email, company) ==
    [user_id |-> "auth0|grid", email |-> email, company |-> company,
     identities |-> <<"auth0">>]

\* Sequences of distinct elements of S, of length at most n: user_id is the
\* remote's key, so a dataset lists a user once.
SeqsUpTo(S, n) ==
    {q \in UNION {[1..m -> S] : m \in 0..n} :
        \A a, b \in DOMAIN q : q[a] = q[b] => a = b}

\* Index of the last page the pagination loop asks for when nothing fails.
LastPageOf(us) == Len(us) \div PageSize

NoFault == [site |-> "none", at |-> 0, kind |-> "none"]

\* The faults that can strike a run over the users us; a fault beyond the
\* run's reach is the same as no fault.
FaultsFor(us) ==
    {NoFault}
    \cup {[site |-> "token", at |-> 0, kind |-> kd] :
               kd \in IF us = <<>> THEN {"env", "neterr", "malformed"} ELSE {}}
    \cup {[site |-> "page", at |-> p, kind |-> kd] :
               p \in 0..LastPageOf(us),
               kd \in {"neterr", "status", "status_unread", "malformed"}}
    \cup {[site |-> "logs", at |-> n, kind |-> kd] :
               n \in 1..Len(us),
               kd \in {"neterr", "status", "status_unread", "badheaders", "malformed"}}

Remotes ==
    UNION {{[users |-> us, fault |-> f] : f \in FaultsFor(us)} :
              us \in SeqsUpTo(UserPool, MaxUsers)}
    \cup {[users |-> <<GridUser(e, c)>>, fault |-> NoFault] :
               e \in GridEmails, c \in GridCompanies}

\* An HTTP exchange: sent is FALSE when send() fails; readable says whether
\* the body arrives whole (text() succeeds); parses says whether it also
\* deserializes into the expected type (json() succeeds); headers says whether
\* the three x-ratelimit-* headers are present and x-ratelimit-reset is a
\* timestamp.
Response(sent, status, readable, parses, headers, body) ==
    [sent |-> sent, status |-> status, readable |-> readable, parses |-> parses,
     headers |-> headers, body |-> body]

\* POST /oauth/token
RemoteToken(r) ==
    IF r.fault.site = "token" /\ r.fault.kind = "neterr"
        THEN Response(FALSE, 0, FALSE, FALSE, FALSE, <<>>)
    ELSE IF r.fault.site = "token" /\ r.fault.kind = "malformed"
        THEN Response(TRUE, StatusOK, TRUE, FALSE, FALSE, <<>>)
    ELSE Response(TRUE, StatusOK, TRUE, TRUE, FALSE, <<"bearer-token">>)

\* GET /api/v2/users?per_page=..&page=..&sort=last_login:-1
RemoteUsersPage(r, page) ==
    LET p == ParseDecimal(page)
        from == p * PageSize + 1
        to == IF (p + 1) * PageSize < Len(r.users) THEN (p + 1) * PageSize
              ELSE Len(r.users)
        slice == IF from > Len(r.users) THEN <<>> ELSE SubSeq(r.users, from, to)
        hit == r.fault.site = "page" /\ r.fault.at = p
    IN  IF hit /\ r.fault.kind = "neterr" THEN Response(FALSE, 0, FALSE, FALSE, FALSE, <<>>)
        ELSE IF hit /\ r.fault.kind = "status"
            THEN Response(TRUE, 500, TRUE, TRUE, FALSE, slice)
        ELSE IF hit /\ r.fault.kind = "status_unread"
            THEN Response(TRUE, 500, FALSE, FALSE, FALSE, <<>>)
        ELSE IF hit /\ r.fault.kind = "malformed"
            THEN Response(TRUE, StatusOK, TRUE, FALSE, FALSE, <<>>)
        ELSE Response(TRUE, StatusOK, TRUE, TRUE, FALSE, slice)

\* A log entry as the remote sends it: no email (serde default).
LogEntry(id, client_name) == [id |-> id, client_name |-> client_name, email |-> ""]

\* The login log the remote holds for a user, most recent first.
RemoteLogOf(user_id) ==
    IF user_id = Alice.user_id
        THEN <<LogEntry("log-a2", "Console"), LogEntry("log-a1", "Docs")>>
    ELSE IF user_id = Erin.user_id THEN <<LogEntry("log-e1", "RFD")>>
    ELSE IF user_id = "auth0|grid" THEN <<LogEntry("log-g1", "Console")>>
    ELSE IF user_id = Dave.user_id THEN <<LogEntry("log-d1", "Docs")>>
    ELSE <<>>

\* GET /api/v2/users/{id}/logs?sort=date:-1&per_page=100, the n-th of the run.
RemoteUserLogs(r, user_id, n) ==
    LET hit == r.fault.site = "logs" /\ r.fault.at = n
    IN  IF hit /\ r.fault.kind = "neterr" THEN Response(FALSE, 0, FALSE, FALSE, FALSE, <<>>)
        ELSE IF hit /\ r.fault.kind = "status"
            THEN Response(TRUE, 500, TRUE, TRUE, FALSE, RemoteLogOf(user_id))
        ELSE IF hit /\ r.fault.kind = "status_unread"
            THEN Response(TRUE, 500, FALSE, FALSE, FALSE, <<>>)
        ELSE IF hit /\ r.fault.kind = "badheaders"
            THEN Response(TRUE, StatusTooManyRequests, TRUE, TRUE, FALSE, <<>>)
        ELSE IF hit /\ r.fault.kind = "malformed"
            THEN Response(TRUE, StatusOK, TRUE, FALSE, FALSE, <<>>)
        ELSE IF user_id = Bob.user_id
            THEN Response(TRUE, StatusTooManyRequests, TRUE, TRUE, TRUE, RemoteLogOf(user_id))
        ELSE Response(TRUE, StatusOK, TRUE, TRUE, TRUE, RemoteLogOf(user_id))

-----------------------------------------------------------------------------
(* The functions of auth_logins.rs.  A function that can panic returns    *)
(* [panic |-> the failing call or "", value |-> its result].               *)

Returned(v) == [panic |-> "", value |-> v]
Panicked(what) == [panic |-> what, value |-> <<>>]

\* Variant of CleanCompany: the bench.com test comes first.
CleanCompanyBenchFirst(email, company) ==
    LET chosen ==
            IF EndsWith(email, "@bench.com") THEN "@bench"
            ELSE IF \/ EndsWith(email, "@" \o GSUITE_DOMAIN)
                    \/ EndsWith(email, "@" \o DOMAIN_NAME)
                    \/ Trim(company) = "Oxide Computer Company"
                THEN "@oxidecomputer"
            ELSE IF Trim(company) = "Algolia" THEN "@algolia"
            ELSE IF \/ Trim(company) = "0xF9BA143B95FF6D82"
                    \/ Len(Trim(company)) = 0
                    \/ Trim(company) = "TBD"
                THEN ""
            ELSE company
    IN  Trim(chosen)

\* The company field of User::to_auth_user.
CleanCompany(email, company) ==
    LET chosen ==
            IF \/ EndsWith(email, "@" \o GSUITE_DOMAIN)
               \/ EndsWith(email, "@" \o DOMAIN_NAME)
               \/ Trim(company) = "Oxide Computer Company"
                THEN "@oxidecomputer"
            ELSE IF EndsWith(email, "@bench.com") THEN "@bench"
            ELSE IF Trim(company) = "Algolia" THEN "@algolia"
            ELSE IF \/ Trim(company) = "0xF9BA143B95FF6D82"
                    \/ Len(Trim(company)) = 0
                    \/ Trim(company) = "TBD"
                THEN ""
            ELSE company
    IN  Trim(chosen)

\* Variant of to_auth_user: a user without identities gets no provider.
to_auth_user_lenient(user) ==
    Returned([user_id |-> user.user_id,
              email |-> user.email,
              company |-> CleanCompany(user.email, user.company),
              login_provider |-> IF Len(user.identities) = 0 THEN ""
                                 ELSE user.identities[1],
              last_application_accessed |-> ""])

\* User::to_auth_user
to_auth_user(user) ==
    IF Len(user.identities) = 0 THEN Panicked("identities[0]")
    ELSE Returned([user_id |-> user.user_id,
                   email |-> user.email,
                   company |-> CleanCompany(user.email, user.company),
                   login_provider |-> user.identities[1],
                   last_application_accessed |-> ""])

\* Variant of get_auth_users_page: the status is not looked at.
get_auth_users_page_any_status(r, page) ==
    LET resp == RemoteUsersPage(r, page)
    IN  IF ~resp.sent THEN Panicked("users send")
        ELSE IF ~resp.parses THEN Panicked("users json")
        ELSE Returned(resp.body)

\* get_auth_users_page
get_auth_users_page(r, page) ==
    LET resp == RemoteUsersPage(r, page)
    IN  IF ~resp.sent THEN Panicked("users send")
        ELSE IF resp.status # StatusOK
            THEN IF resp.readable THEN Returned(<<>>) ELSE Panicked("users text")
        ELSE IF ~resp.parses THEN Panicked("users json")
        ELSE Returned(resp.body)

\* Variant of get_auth_logs_for_user: only 200 is told apart, and any other
\* answer is deserialized as a log list, which fails.
get_auth_logs_for_user_unchecked(r, user_id, n) ==
    LET resp == RemoteUserLogs(r, user_id, n)
    IN  IF ~resp.sent THEN Panicked("logs send")
        ELSE IF resp.status = StatusOK /\ resp.parses THEN Returned(resp.body)
        ELSE Panicked("logs json")

\* get_auth_logs_for_user
get_auth_logs_for_user(r, user_id, n) ==
    LET resp == RemoteUserLogs(r, user_id, n)
    IN  IF ~resp.sent THEN Panicked("logs send")
        ELSE IF resp.status = StatusOK
            THEN IF resp.parses THEN Returned(resp.body) ELSE Panicked("logs json")
        ELSE IF resp.status = StatusTooManyRequests
            THEN IF resp.headers THEN Returned(<<>>) ELSE Panicked("logs headers")
        ELSE IF resp.readable THEN Returned(<<>>)
        ELSE Panicked("logs text")

\* Database::upsert_auth_user: insert or replace the row of the user_id.
upsert_auth_user(table, rec) ==
    [id \in DOMAIN table \cup {rec.user_id} |->
        IF id = rec.user_id THEN rec ELSE table[id]]

\* Database::upsert_auth_user_login: insert or replace the row of the event.
upsert_auth_user_login(table, user_id, rec) ==
    [key \in DOMAIN table \cup {<<user_id, rec.id>>} |->
        IF key = <<user_id, rec.id>> THEN rec ELSE table[key]]

\* The log entries of get_auth_users' inner loop, each with the user's email.
StampEmail(logins, email) ==
    [n \in 1..Len(logins) |-> [logins[n] EXCEPT !.email = email]]

RECURSIVE UpsertAllLogins(_, _, _)
UpsertAllLogins(table, user_id, logins) ==
    IF logins = <<>> THEN table
    ELSE UpsertAllLogins(upsert_auth_user_login(table, user_id, Head(logins)),
                         user_id, Tail(logins))

(* The external calls, as the run issues them. *)
TokenCall == [op |-> "token"]
PageCall(page) == [op |-> "users_page", page |-> page]
LogsCall(user_id) == [op |-> "user_logs", user_id |-> user_id]
SleepCall(ms) == [op |-> "sleep", ms |-> ms]
UpsertUserCall(rec) == [op |-> "upsert_auth_user", rec |-> rec]
UpsertLoginCall(rec) == [op |-> "upsert_auth_user_login", rec |-> rec]

EmptyTable == [x \in {} |-> x]

\* Variant of InitialPage: paging resumes after the users already stored.
ResumedPage == Cardinality(DOMAIN sinkUsers) \div PageSize

\* let mut i: i32 = 0;
InitialPage == 0

\* Variant of NextPage: the counter advances twice.
SkipPage(page) == page + 2

\* i += 1;
NextPage(page) == page + 1

\* Variant of Sleep: no sleep.
NoSleep(issued, ms) == issued

\* thread::sleep(rate_limit_sleep), appended to the calls issued so far.
Sleep(issued, ms) == Append(issued, SleepCall(ms))

\* Variant of FirstResult: the oldest entry.
LastResult(logins) == logins[Len(logins)]

\* auth_user_logins.get(0).unwrap()
FirstResult(logins) == logins[1]

-----------------------------------------------------------------------------
(* The run. *)

Init ==
    /\ remote \in Remotes
    /\ run = 1
    /\ pc = "token"
    /\ panic = ""
    /\ access_token = ""
    /\ i = 0
    /\ has_records = TRUE
    /\ u = <<>>
    /\ users = <<>>
    /\ cur = 1
    /\ auth_user = <<>>
    /\ auth_user_logins = <<>>
    /\ auth_users = <<>>
    /\ k = 1
    /\ sinkUsers = EmptyTable
    /\ sinkLogins = EmptyTable
    /\ calls = <<>>
    /\ prevCalls = <<>>
    /\ prevSink = <<EmptyTable, EmptyTable>>

\* The run ends in a panic.
Abort(what) ==
    /\ pc' = "aborted"
    /\ panic' = what

\* Variant of AfterUser: get_auth_users returns after the first user.
AfterUserEager(next, collected, normalized) ==
    IF Len(normalized) > 0 THEN "sync"
    ELSE IF next <= Len(collected) THEN "normalize"
    ELSE "done"

\* Where the run goes after the per-user loop's body, or when entering it.
AfterUser(next, collected, normalized) ==
    IF next <= Len(collected) THEN "normalize"
    ELSE IF Len(normalized) > 0 THEN "sync"
    ELSE "done"

\* get_auth_users, up to the pagination loop: the credentials and the token.
FetchToken ==
    /\ pc = "token"
    /\ IF remote.fault.site = "token" /\ remote.fault.kind = "env"
           THEN /\ Abort("env::var")
                /\ UNCHANGED <<access_token, calls>>
       ELSE LET resp == RemoteToken(remote)
            IN  /\ calls' = Append(calls, TokenCall)
                /\ IF ~resp.sent
                       THEN Abort("token send") /\ UNCHANGED access_token
                   ELSE IF ~resp.parses
                       THEN Abort("token json") /\ UNCHANGED access_token
                   ELSE /\ access_token' = resp.body[1]
                        /\ pc' = "page"
                        /\ UNCHANGED panic
    /\ users' = <<>>
    /\ i' = InitialPage
    /\ has_records' = TRUE
    /\ UNCHANGED <<remote, run, u, cur, auth_user, auth_user_logins, auth_users,
                   k, sinkUsers, sinkLogins, prevCalls, prevSink>>

\* The pagination loop's request.
FetchPage ==
    /\ pc = "page"
    /\ has_records
    /\ LET got == get_auth_users_page(remote, ToDecimal(i))
       IN  /\ calls' = Append(calls, PageCall(ToDecimal(i)))
           /\ IF got.panic # ""
                  THEN Abort(got.panic) /\ UNCHANGED u
              ELSE /\ u' = got.value
                   /\ pc' = "page_sleep"
                   /\ UNCHANGED panic
    /\ UNCHANGED <<remote, run, access_token, i, has_records, users, cur,
                   auth_user, auth_user_logins, auth_users, k, sinkUsers,
                   sinkLogins, prevCalls, prevSink>>

\* The rest of the pagination loop's body, and the loop's test.
PageSleep ==
    /\ pc = "page_sleep"
    /\ calls' = Sleep(calls, RateLimitSleepMs)
    /\ has_records' = (Len(u) # 0)
    /\ i' = NextPage(i)
    /\ users' = users \o u
    /\ u' = <<>>
    /\ pc' = IF has_records' THEN "page" ELSE AfterUser(1, users', <<>>)
    /\ UNCHANGED <<remote, run, panic, access_token, cur, auth_user,
                   auth_user_logins, auth_users, k, sinkUsers, sinkLogins,
                   prevCalls, prevSink>>

\* The per-user loop: user.to_auth_user().
Normalize ==
    /\ pc = "normalize"
    /\ LET got == to_auth_user(users[cur])
       IN  IF got.panic # ""
               THEN Abort(got.panic) /\ UNCHANGED auth_user
           ELSE /\ auth_user' = got.value
                /\ pc' = "logs"
                /\ UNCHANGED panic
    /\ UNCHANGED <<remote, run, access_token, i, has_records, u, users, cur,
                   auth_user_logins, auth_users, k, sinkUsers, sinkLogins, calls,
                   prevCalls, prevSink>>

\* The per-user loop: the log request, last_application_accessed, the push.
FetchLogs ==
    /\ pc = "logs"
    /\ LET got == get_auth_logs_for_user(remote, users[cur].user_id, cur)
           done == IF Len(got.value) # 0
                       THEN [auth_user EXCEPT
                               !.last_application_accessed =
                                   FirstResult(got.value).client_name]
                   ELSE auth_user
       IN  /\ calls' = Append(calls, LogsCall(users[cur].user_id))
           /\ IF got.panic # ""
                  THEN /\ Abort(got.panic)
                       /\ UNCHANGED <<auth_user, auth_user_logins, auth_users>>
              ELSE /\ auth_user_logins' = got.value
                   /\ auth_user' = done
                   /\ auth_users' = Append(auth_users, done)
                   /\ pc' = "logs_sleep"
                   /\ UNCHANGED panic
    /\ UNCHANGED <<remote, run, access_token, i, has_records, u, users, cur, k,
                   sinkUsers, sinkLogins, prevCalls, prevSink>>

\* The per-user loop: the sleep after the log request.
LogsSleep ==
    /\ pc = "logs_sleep"
    /\ calls' = Sleep(calls, RateLimitSleepMs)
    /\ pc' = "logins"
    /\ UNCHANGED <<remote, run, panic, access_token, i, has_records, u, users,
                   cur, auth_user, auth_user_logins, auth_users, k, sinkUsers,
                   sinkLogins, prevCalls, prevSink>>

\* Variant of UpsertLogins: the normalized user is upserted first.
UpsertLoginsUserFirst ==
    /\ pc = "logins"
    /\ LET stamped == StampEmail(auth_user_logins, users[cur].email)
       IN  /\ sinkLogins' = UpsertAllLogins(sinkLogins, users[cur].user_id, stamped)
           /\ calls' = Append(calls, UpsertUserCall(auth_user))
                          \o [n \in 1..Len(stamped) |-> UpsertLoginCall(stamped[n])]
    /\ sinkUsers' = upsert_auth_user(sinkUsers, auth_user)
    /\ auth_user_logins' = <<>>
    /\ cur' = cur + 1
    /\ pc' = AfterUser(cur', users, auth_users)
    /\ UNCHANGED <<remote, run, panic, access_token, i, has_records, u, users,
                   auth_user, auth_users, k, prevCalls, prevSink>>

\* The per-user loop: the inner loop upserting the user's login events.
UpsertLogins ==
    /\ pc = "logins"
    /\ LET stamped == StampEmail(auth_user_logins, users[cur].email)
       IN  /\ sinkLogins' = UpsertAllLogins(sinkLogins, users[cur].user_id, stamped)
           /\ calls' = calls \o [n \in 1..Len(stamped) |-> UpsertLoginCall(stamped[n])]
    /\ auth_user_logins' = <<>>
    /\ cur' = cur + 1
    /\ pc' = AfterUser(cur', users, auth_users)
    /\ UNCHANGED <<remote, run, panic, access_token, i, has_records, u, users,
                   auth_user, auth_users, k, sinkUsers, prevCalls, prevSink>>

\* refresh_db_auth's loop: db.upsert_auth_user(&auth_user).
SyncUser ==
    /\ pc = "sync"
    /\ sinkUsers' = upsert_auth_user(sinkUsers, auth_users[k])
    /\ calls' = Append(calls, UpsertUserCall(auth_users[k]))
    /\ k' = k + 1
    /\ pc' = IF k' <= Len(auth_users) THEN "sync" ELSE "done"
    /\ UNCHANGED <<remote, run, panic, access_token, i, has_records, u, users,
                   cur, auth_user, auth_user_logins, auth_users, sinkLogins,
                   prevCalls, prevSink>>

\* refresh_db_auth is invoked again: a new run against the same database.
Rerun ==
    /\ pc \in {"done", "aborted"}
    /\ run < MaxRuns
    /\ run' = run + 1
    /\ pc' = "token"
    /\ panic' = ""
    /\ access_token' = ""
    /\ i' = 0
    /\ has_records' = TRUE
    /\ u' = <<>>
    /\ users' = <<>>
    /\ cur' = 1
    /\ auth_user' = <<>>
    /\ auth_user_logins' = <<>>
    /\ auth_users' = <<>>
    /\ k' = 1
    /\ calls' = <<>>
    /\ prevCalls' = calls
    /\ prevSink' = <<sinkUsers, sinkLogins>>
    /\ UNCHANGED <<remote, sinkUsers, sinkLogins>>

Next ==
    \/ FetchToken
    \/ FetchPage
    \/ PageSleep
    \/ Normalize
    \/ FetchLogs
    \/ LogsSleep
    \/ UpsertLogins
    \/ SyncUser
    \/ Rerun

Spec == Init /\ [][Next]_vars

-----------------------------------------------------------------------------
(* Reading the calls of a run. *)

IsPageCall(c) == c.op = "users_page"
IsLogsCall(c) == c.op = "user_logs"
IsSleepCall(c) == c.op = "sleep"
IsUpsertUserCall(c) == c.op = "upsert_auth_user"
IsUpsertLoginCall(c) == c.op = "upsert_auth_user_login"

PageRequests == SelectSeq(calls, IsPageCall)
LogRequests == SelectSeq(calls, IsLogsCall)
UserUpserts == SelectSeq(calls, IsUpsertUserCall)
LoginUpserts == SelectSeq(calls, IsUpsertLoginCall)

\* What the page with index p comes back as.
PageResult(p) == get_auth_users_page(remote, ToDecimal(p))
ComesBackEmpty(p) == PageResult(p).panic = "" /\ Len(PageResult(p).value) = 0

\* The pages 0 .. n-1, one after the other.
RECURSIVE PagesBefore(_)
PagesBefore(n) == IF n = 0 THEN <<>> ELSE PagesBefore(n - 1) \o PageResult(n - 1).value

RECURSIVE SumOfSizes(_)
SumOfSizes(n) == IF n = 0 THEN 0 ELSE SumOfSizes(n - 1) + Len(PageResult(n - 1).value)

\* The log list the n-th collected user's request comes back as.
LogsResult(n) == get_auth_logs_for_user(remote, users[n].user_id, n)

\* The n-th collected user's log request is answered 429 with the rate-limit
\* headers, or with another non-success status (a response received whole).
LogsRateLimited(n) ==
    LET resp == RemoteUserLogs(remote, users[n].user_id, n)
    IN  resp.sent /\ resp.status = StatusTooManyRequests /\ resp.headers
LogsOtherFailure(n) ==
    LET resp == RemoteUserLogs(remote, users[n].user_id, n)
    IN  /\ resp.sent /\ resp.readable
        /\ resp.status # StatusOK /\ resp.status # StatusTooManyRequests
LogsSkipped(n) == LogsRateLimited(n) \/ LogsOtherFailure(n)

\* The login events of the collected users 1 .. n-1, as the code upserts them.
RECURSIVE LoginsBefore(_)
LoginsBefore(n) ==
    IF n <= 1 THEN <<>>
    ELSE LoginsBefore(n - 1)
         \o [m \in 1..Len(LogsResult(n - 1).value) |->
                UpsertLoginCall([LogsResult(n - 1).value[m] EXCEPT
                                    !.email = users[n - 1].email])]

\* The collected user whose log request most recently precedes call j.
OwnerOf(j) ==
    LET before == {a \in 1..(j - 1) : IsLogsCall(calls[a])}
        last == CHOOSE a \in before : \A b \in before : b <= a
    IN  calls[last].user_id

-----------------------------------------------------------------------------
(* C1: the pages requested are 0, 1, 2, ... without gap or repeat; every   *)
(* requested page but the last came back non-empty, so no page after the   *)
(* first empty one is requested; once the loop has ended, the last page    *)
(* requested is the first empty page N and the users collected are pages   *)
(* 0 .. N-1 one after the other, their number the sum of the page sizes.   *)
C1_ContiguousPages ==
    /\ \A n \in 1..Len(PageRequests) : ParseDecimal(PageRequests[n].page) = n - 1
    /\ \A n \in 1..(Len(PageRequests) - 1) : ~ComesBackEmpty(n - 1)
    /\ (pc # "token" /\ ~has_records) =>
           LET N == Len(PageRequests) - 1
           IN  /\ N >= 0
               /\ ComesBackEmpty(N)
               /\ \A m \in 0..(N - 1) : ~ComesBackEmpty(m)
               /\ users = PagesBefore(N)
               /\ Len(users) = SumOfSizes(N)

\* A full page, then an empty one: two requests, one page of users.
C1_Witness ==
    /\ pc = "done"
    /\ Len(PageRequests) = 2
    /\ Len(users) = PageSize
    /\ Len(PageResult(0).value) = PageSize

(* C2, as the spec states it: a user's normalized record is handed to the  *)
(* sink before any of that user's login events.                            *)
C2_UserBeforeLogins ==
    \A j \in DOMAIN calls :
        IsUpsertLoginCall(calls[j]) =>
            \E a \in 1..(j - 1) :
                /\ IsUpsertUserCall(calls[a])
                /\ calls[a].rec.email = calls[j].rec.email

(* C2, amended: every login event of a run is handed to the sink before    *)
(* any normalized user is; in particular a user's login events precede     *)
(* that user's normalized record.                                          *)
C2_LoginsBeforeUsers ==
    \A a, j \in DOMAIN calls :
        (IsUpsertUserCall(calls[a]) /\ IsUpsertLoginCall(calls[j])) => j < a

C2_Witness ==
    /\ pc = "done"
    /\ \E a, j \in DOMAIN calls :
          /\ IsUpsertUserCall(calls[a])
          /\ IsUpsertLoginCall(calls[j])
          /\ calls[a].rec.email = calls[j].rec.email

\* The rules of the company rewrite, each on its own.
IsOrganizational(email, company) ==
    \/ EndsWith(email, "@oxidecomputer.com")
    \/ EndsWith(email, "@oxide.computer")
    \/ Trim(company) = "Oxide Computer Company"
IsBench(email) == EndsWith(email, "@bench.com")
IsAlgolia(company) == Trim(company) = "Algolia"
IsPlaceholder(company) == Trim(company) \in {"", "TBD", "0xF9BA143B95FF6D82"}

CompanyFollowsRules(email, company, out) ==
    LET r1 == IsOrganizational(email, company)
        r2 == IsBench(email)
        r3 == IsAlgolia(company)
        r4 == IsPlaceholder(company)
    IN  /\ r1 => out = "@oxidecomputer"
        /\ (~r1 /\ r2) => out = "@bench"
        /\ (~r1 /\ ~r2 /\ r3) => out = "@algolia"
        /\ (~r1 /\ ~r2 /\ ~r3 /\ r4) => out = ""
        /\ (~r1 /\ ~r2 /\ ~r3 /\ ~r4) => out = Trim(company)

(* C3: the company of every normalized user is given by the first matching *)
(* rule, in the order organizational, bench, algolia, placeholder, trimmed *)
(* original; and the examples the claim names come out as it says.         *)
C3_CompanyRules ==
    /\ \A n \in 1..Len(auth_users) :
          CompanyFollowsRules(users[n].email, users[n].company, auth_users[n].company)
    /\ pc \in {"logs", "logs_sleep", "logins"} =>
          CompanyFollowsRules(users[cur].email, users[cur].company, auth_user.company)
    /\ \A j \in DOMAIN calls :
          IsUpsertUserCall(calls[j]) =>
              \E n \in 1..Len(users) :
                  /\ users[n].user_id = calls[j].rec.user_id
                  /\ CompanyFollowsRules(users[n].email, users[n].company,
                                         calls[j].rec.company)
    /\ CleanCompany("a@oxidecomputer.com", "whatever") = "@oxidecomputer"
    /\ CleanCompany("a@oxidecomputer.com", "TBD") = "@oxidecomputer"
    /\ CleanCompany("b@bench.com", "Algolia") = "@bench"
    /\ CleanCompany("c@example.com", "TBD") = ""

\* An earlier rule wins over a later one, and the result reaches the sink.
C3_Witness ==
    /\ pc = "done"
    /\ users = <<GridUser("b@bench.com", "\tAlgolia ")>>
    /\ sinkUsers["auth0|grid"].company = "@bench"

\* The record get_auth_users builds for the n-th collected user.
ExpectedRecord(n) ==
    [to_auth_user(users[n]).value EXCEPT
        !.last_application_accessed =
            IF Len(LogsResult(n).value) > 0 THEN Head(LogsResult(n).value).client_name
            ELSE ""]

\* Every collected user has gone through the whole pipeline.
AllProcessed ==
    /\ Len(LogRequests) = Len(users)
    /\ Len(UserUpserts) = Len(users)
    /\ \A n \in 1..Len(users) :
          /\ LogRequests[n].user_id = users[n].user_id
          /\ UserUpserts[n].rec = ExpectedRecord(n)
    /\ LoginUpserts = LoginsBefore(Len(users) + 1)

(* C4: a user-page request answered with a non-success status comes back   *)
(* as an empty list and does not abort the run; no later page is           *)
(* requested, the users collected are those of the earlier pages, and      *)
(* they are all processed.                                                 *)
C4_PageStatusEndsPaging ==
    (remote.fault.site = "page" /\ remote.fault.kind = "status") =>
        LET p == remote.fault.at
        IN  /\ PageResult(p) = Returned(<<>>)
            /\ \A n \in 1..Len(PageRequests) : ParseDecimal(PageRequests[n].page) <= p
            /\ panic \notin {"users send", "users json", "users text"}
            /\ Len(PageRequests) = p + 1 => pc # "page"
            /\ ~has_records =>
                  /\ Len(PageRequests) = p + 1
                  /\ users = SubSeq(remote.users, 1, p * PageSize)
            /\ pc = "done" => AllProcessed

\* The second page fails: the first page's users are processed, the third
\* user is never fetched.
C4_Witness ==
    /\ remote.fault = [site |-> "page", at |-> 1, kind |-> "status"]
    /\ pc = "done"
    /\ Len(remote.users) > Len(users)
    /\ Len(users) = PageSize
    /\ Len(UserUpserts) = PageSize

(* C5: a log request answered 429 with the rate-limit headers, or with     *)
(* another non-success status, comes back as an empty list without a panic *)
(* and is not repeated (the n-th log request of a run is for the n-th      *)
(* user); the user is still normalized, with an empty                      *)
(* last_application_accessed, and delivered when the run completes; no     *)
(* login event is upserted for it; the users after it are processed.       *)
C5_LogFailureSkipsUser ==
    /\ Len(LogRequests) <= Len(users)
    /\ \A n \in 1..Len(LogRequests) : LogRequests[n].user_id = users[n].user_id
    /\ \A n \in 1..Len(users) :
          LogsSkipped(n) =>
              /\ LogsResult(n) = Returned(<<>>)
              /\ ~(pc = "aborted" /\ cur = n
                     /\ panic \in {"logs send", "logs json", "logs headers",
                                   "logs text"})
              /\ Len(LogRequests) >= n => Len(auth_users) >= n
              /\ Len(auth_users) >= n =>
                    /\ auth_users[n].user_id = users[n].user_id
                    /\ auth_users[n].last_application_accessed = ""
              /\ \A j \in DOMAIN calls :
                    IsUpsertLoginCall(calls[j]) => calls[j].rec.email # users[n].email
              /\ pc = "done" =>
                    /\ users[n].user_id \in DOMAIN sinkUsers
                    /\ sinkUsers[users[n].user_id].last_application_accessed = ""
    /\ pc = "done" => AllProcessed

\* A rate-limited user, a user processed normally after it, and a user whose
\* log request fails otherwise, in one completed run.
C5_Witness ==
    /\ pc = "done"
    /\ \E n, m, q \in 1..Len(users) :
          /\ LogsRateLimited(n)
          /\ LogsOtherFailure(m)
          /\ n < q
          /\ ~LogsSkipped(q)
          /\ auth_users[q].last_application_accessed = "Console"
          /\ Len(LoginUpserts) = 2

(* C6: last_application_accessed of every normalized user is the           *)
(* client_name of the first entry of the user's fetched log list, or empty *)
(* when the list is empty; every login event upserted carries the email of *)
(* the user whose log it was fetched from.                                 *)
C6_LastApplication ==
    /\ \A n \in 1..Len(auth_users) :
          /\ Len(LogsResult(n).value) > 0 =>
                auth_users[n].last_application_accessed
                    = Head(LogsResult(n).value).client_name
          /\ Len(LogsResult(n).value) = 0 =>
                auth_users[n].last_application_accessed = ""
    /\ \A j \in DOMAIN calls :
          IsUpsertLoginCall(calls[j]) =>
              \E n \in 1..Len(users) :
                  /\ users[n].user_id = OwnerOf(j)
                  /\ calls[j].rec.email = users[n].email
                  /\ \E m \in 1..Len(LogsResult(n).value) :
                        LogsResult(n).value[m].id = calls[j].rec.id
    /\ \A key \in DOMAIN sinkLogins :
          \E n \in 1..Len(remote.users) :
              /\ remote.users[n].user_id = key[1]
              /\ sinkLogins[key].email = remote.users[n].email
    /\ pc = "done" =>
          \A n \in 1..Len(users) :
              sinkUsers[users[n].user_id].last_application_accessed
                  = auth_users[n].last_application_accessed

\* A user with two log entries, the first of them Console, a user without
\* any, and login events of two users in the database.
C6_Witness ==
    /\ pc = "done"
    /\ \E n, m \in 1..Len(auth_users) :
          /\ Len(LogsResult(n).value) = 2
          /\ auth_users[n].last_application_accessed = "Console"
          /\ auth_users[m].last_application_accessed = ""
    /\ \E a, b \in DOMAIN sinkLogins : sinkLogins[a].email # sinkLogins[b].email

IsRemoteRequest(c) == IsPageCall(c) \/ IsLogsCall(c)

C8_SecondRunChangesNothing ==
    run >= 2 =>
        /\ <<sinkUsers, sinkLogins>> = prevSink
        /\ pc = "done" =>
              /\ UserUpserts = SelectSeq(prevCalls, IsUpsertUserCall)
              /\ calls = prevCalls

C8_Witness ==
    /\ run = 2
    /\ pc = "done"
    /\ Len(UserUpserts) >= 2
    /\ Len(LoginUpserts) >= 2
    /\ Cardinality(DOMAIN sinkUsers) >= 2

(* C9: a collected user without identities is never normalized, never has  *)
(* its log requested and is never upserted, nor is any user after it; the  *)
(* run aborts on reaching it, and the login events handed to the sink      *)
(* before are still there.                                                 *)
C9_EmptyIdentitiesAbort ==
    /\ \A n \in 1..Len(users) :
          Len(users[n].identities) = 0 =>
              /\ cur <= n
              /\ Len(auth_users) < n
              /\ pc \notin {"sync", "done"}
              /\ pc \in {"logs", "logs_sleep", "logins"} => cur < n
              /\ (pc = "aborted" /\ cur = n /\ ~has_records) => panic = "identities[0]"
              /\ \A m \in n..Len(users) : \A j \in DOMAIN calls :
                    /\ IsLogsCall(calls[j]) => calls[j].user_id # users[m].user_id
                    /\ IsUpsertLoginCall(calls[j]) => calls[j].rec.email # users[m].email
                    /\ IsUpsertUserCall(calls[j]) =>
                          calls[j].rec.user_id # users[m].user_id
    /\ (pc = "aborted" /\ panic = "identities[0]") =>
          /\ Len(users[cur].identities) = 0
          /\ Len(LogRequests) = cur - 1
          /\ LoginUpserts = LoginsBefore(cur)
          /\ \A j \in DOMAIN calls :
                IsUpsertLoginCall(calls[j]) =>
                    /\ <<OwnerOf(j), calls[j].rec.id>> \in DOMAIN sinkLogins
                    /\ sinkLogins[<<OwnerOf(j), calls[j].rec.id>>] = calls[j].rec

\* The second of three users has no identity; the first one's login events
\* are in the database.
C9_Witness ==
    /\ pc = "aborted"
    /\ panic = "identities[0]"
    /\ cur = 2
    /\ Len(users) = 3
    /\ Len(LoginUpserts) = 2
    /\ Cardinality(DOMAIN sinkLogins) = 2

(* C10: no normalized user is handed to the sink before the per-user loop  *)
(* has finished for every collected user; a run that aborts has handed     *)
(* over none, and has handed over the login events of the users processed  *)
(* before the abort; a run that completes hands over each collected user   *)
(* once, in fetch order.                                                   *)
C10_UsersAfterTheLoop ==
    /\ pc \notin {"sync", "done"} => Len(UserUpserts) = 0
    /\ pc = "aborted" =>
          /\ Len(UserUpserts) = 0
          /\ LoginUpserts = LoginsBefore(cur)
          /\ run = 1 => DOMAIN sinkUsers = {}
    /\ pc \in {"sync", "done"} =>
          /\ cur = Len(users) + 1
          /\ Len(auth_users) = Len(users)
          /\ Len(UserUpserts) = k - 1
          /\ \A n \in 1..Len(UserUpserts) :
                /\ UserUpserts[n].rec = auth_users[n]
                /\ UserUpserts[n].rec.user_id = users[n].user_id
    /\ pc = "done" => Len(UserUpserts) = Len(users)

\* A run aborted by a failed log request: login events in the database, no
\* user.
C10_Witness ==
    /\ run = 1
    /\ pc = "aborted"
    /\ panic \in {"logs send", "logs json", "logs headers", "logs text"}
    /\ Len(LoginUpserts) = 2
    /\ DOMAIN sinkUsers = {}
    /\ Cardinality(DOMAIN sinkLogins) = 2

====
